---- MODULE Spec2Model ----
(***************************************************************************)
(* A model of test.py: two endpoint threads (a transmitter and a listener) *)
(* exchanging UDP datagrams on the loopback interface, coordinated through *)
(* one shared State value guarded by one Condition lock, and started by    *)
(* MainClass.run().                                                        *)
(*                                                                         *)
(* Granularity: every access to the shared state (one evaluation of the    *)
(* property MultiThreadStateCommunicationClass.state) takes two steps, the *)
(* acquisition of the Condition lock and the access followed by the        *)
(* release.  kbhit() and getch() are two steps on the shared console       *)
(* buffer.  Thread-local statements are merged with the preceding step.    *)
(***************************************************************************)
EXTENDS Integers, Sequences, FiniteSets, TLC

VARIABLES
    state,      \* State._state of the one State object (MainClass.state)
    approved,   \* State._approved_values of that object
    lock,       \* the threads inside a `with self._condition:` block
    pc,         \* position of the main thread and of the two endpoint threads
    cfg,        \* the configuration MainClass was constructed with
    keys,       \* console input buffer read by kbhit()/getch()
    pressed,    \* number of keys pressed so far
    cnt,        \* transmitter_loop's local counter
    sent,       \* datagrams sent, in the order of the sendto() calls
    inflight,   \* datagrams queued at the listener's socket
    logged,     \* datagrams the listener received and logged, in order
    retry_cnt,  \* receiver_loop's local retry counter
    observed,   \* per endpoint: a read of its wait loop returned the peer's
                \* ready value or "running"
    escSeen,    \* a getch() of an endpoint returned ESC
    cancelInLoop,     \* ESC was pressed while the listener was in receiver_loop
                      \* and not at its recvfrom() call
    recvAfterCancel,  \* recvfrom() calls the listener began since then
    forceStopSkipped, \* the listener's final test found listener_server_stopped
    bindFailed, \* bind() raised in ListeningServerClass.__init__
    assigned,   \* a call of the State setter has assigned a value
    sentBeyond, \* a sendto() call was made after the MaxCnt recorded ones
    timeouts,   \* recvfrom() calls of receiver_loop that raised timeout
    recvError,  \* a recvfrom() call of receiver_loop raised socket.error
    escInIteration,   \* the listener's getch() returned ESC in the loop
                      \* iteration it is in
    txStopInLoop,     \* the transmitter wrote transmitter_client_stopped
                      \* while the listener was in receiver_loop
    recvAfterTxStop,  \* recvfrom() calls the listener completed since then
    arg,        \* State-class scenario: the value each caller passes to the setter
    raised      \* State-class scenario: each caller's last setter call raised

vars == <<state, approved, lock, pc, cfg, keys, pressed, cnt, sent,
          inflight, logged, retry_cnt, observed, escSeen, cancelInLoop,
          recvAfterCancel, forceStopSkipped, bindFailed, assigned, arg, raised,
          sentBeyond, timeouts, recvError, escInIteration, txStopInLoop,
          recvAfterTxStop>>

(***************************************************************************)
(* Bounds of the model.                                                    *)
(***************************************************************************)
\* datagrams whose counter value the model records
MaxCnt == 2
\* keys pressed on the console during a run
MaxKeys == 2
\* largest buffer_size the configuration is drawn from
MaxBufferSize == 2

(***************************************************************************)
(* Values.  A Python value is modelled by a string; NoneValue stands for   *)
(* None, the only value used here that is neither a str nor an int.        *)
(***************************************************************************)
NoneValue == "None"

IDLE == "idle"
TRANSMITTER_READY == "transmitter_client_ready"
LISTENER_READY == "listener_server_ready"
RUNNING == "running"
TRANSMITTER_STOPPED == "transmitter_client_stopped"
LISTENER_STOPPED == "listener_server_stopped"

\* MainClass.state = State(approved_values=[...])
MainApprovedValues ==
    << IDLE, TRANSMITTER_READY, LISTENER_READY, RUNNING,
       TRANSMITTER_STOPPED, LISTENER_STOPPED >>

Range(s) == { s[i] : i \in DOMAIN s }

Main == "Main"
Transmitter == "Transmitter"
Listener == "Listener"
Endpoints == { Transmitter, Listener }

ESC == "ESC"
OtherKey == "other"
Keys == { ESC, OtherKey }


(***************************************************************************)
(* Program constants.                                                      *)
(***************************************************************************)
\* receiver_loop: retry_cnt = 2
RetryBudget == 2
\* MainClass.port / DEFAULT_CFG: port = 11999
DefaultPort == 11999
\* ord("0"), the first ASCII digit produced by str.encode(str(cnt))
AsciiZero == 48

(***************************************************************************)
(* class State                                                             *)
(***************************************************************************)
\* isinstance(new_value, (str, int))
IsStrOrInt(v) == v # NoneValue

\* State.__init__: self._state = self._approved_values[0]
State__init__Last(approved_values) == approved_values[Len(approved_values)]
State__init__Unset(approved_values) == NoneValue
State__init__(approved_values) == approved_values[1]

\* State.state setter: the two assertions
SetterAcceptsAnything(approved_values, new_value) == TRUE
SetterAccepts(approved_values, new_value) ==
    /\ IsStrOrInt(new_value)
    /\ new_value \in Range(approved_values)

\* State.state setter: the value of self._state after the call
State_setter(approved_values, current, new_value) ==
    IF SetterAccepts(approved_values, new_value) THEN new_value ELSE current

(***************************************************************************)
(* The datagram payload: str.encode(str(cnt)) and its reception            *)
(***************************************************************************)
RECURSIVE Digits(_)
\* str(cnt): the decimal digits of a non-negative integer, most significant first
Digits(n) == IF n < 10 THEN << n >> ELSE Append(Digits(n \div 10), n % 10)

\* str.encode(str(cnt)): one ASCII byte per digit
Encode(n) == [i \in 1..Len(Digits(n)) |-> AsciiZero + Digits(n)[i]]

RECURSIVE Decode(_)
\* int(payload): the number a sequence of ASCII digits denotes; -1 when the
\* payload is empty or holds a byte that is no digit
Decode(b) ==
    IF b = << >> THEN -1
    ELSE LET last == b[Len(b)] - AsciiZero
             init == SubSeq(b, 1, Len(b) - 1)
         IN  IF last < 0 \/ last > 9 THEN -1
             ELSE IF init = << >> THEN last
             ELSE IF Decode(init) < 0 THEN -1
             ELSE 10 * Decode(init) + last

\* socket.recvfrom(buffer_size) on a datagram socket of the platform the
\* script runs on (it imports msvcrt, so Windows): a datagram longer than the
\* buffer makes recvfrom fail with WSAEMSGSIZE, raised as socket.error; a
\* datagram that fits is returned whole.
RecvFromTruncating(payload, buffer_size) ==
    [ error |-> FALSE,
      data  |-> SubSeq(payload, 1,
                       IF Len(payload) < buffer_size THEN Len(payload)
                                                     ELSE buffer_size) ]
RecvFrom(payload, buffer_size) ==
    [ error |-> Len(payload) > buffer_size, data |-> payload ]

(***************************************************************************)
(* Configuration                                                           *)
(***************************************************************************)
\* MainClass.__init__: the three assertions on the configuration
MainClass__init__Accepts(c) ==
    /\ c.maximum_num_of_iterations > 1
    /\ c.port > 1000
    /\ c.buffer_size > 0

\* TransmittingClientClass.__init__: the assertions on its arguments
Transmitter__init__Accepts(c) ==
    /\ c.port > 1000
    /\ c.maximum_num_of_iterations > 1

\* ListeningServerClass.__init__: the assertions on its arguments
Listener__init__Accepts(c) ==
    /\ c.port > 1000
    /\ c.buffer_size > 1

\* the configurations Init draws from, valid and invalid: for each argument
\* the largest value an assertion rejects and a value every assertion accepts
ConfigCandidates ==
    [ maximum_num_of_iterations : { 1, 2 },
      port : { 1000, DefaultPort },
      buffer_size : { 0, 1, MaxBufferSize } ]


(***************************************************************************)
(* Initial state: MainClass has been constructed with an accepted          *)
(* configuration; the class attribute MainClass.state holds the State      *)
(* object; no thread has been created.                                     *)
(***************************************************************************)
Init ==
    /\ approved = MainApprovedValues
    /\ state = State__init__(MainApprovedValues)
    /\ lock = {}
    /\ pc = [ t \in { Main, Transmitter, Listener } |->
                IF t = Main THEN "construct_transmitter" ELSE "not_started" ]
    /\ cfg \in { c \in ConfigCandidates : MainClass__init__Accepts(c) }
    /\ keys = << >>
    /\ pressed = 0
    /\ cnt = 0
    /\ sent = << >>
    /\ inflight = {}
    /\ logged = << >>
    /\ retry_cnt = 0
    /\ observed = [ t \in Endpoints |-> FALSE ]
    /\ escSeen = FALSE
    /\ cancelInLoop = FALSE
    /\ recvAfterCancel = 0
    /\ forceStopSkipped = FALSE
    /\ bindFailed = FALSE
    /\ assigned = FALSE
    /\ arg = [ t \in Endpoints |-> NoneValue ]
    /\ raised = [ t \in Endpoints |-> FALSE ]
    /\ sentBeyond = FALSE
    /\ timeouts = 0
    /\ recvError = FALSE
    /\ escInIteration = FALSE
    /\ txStopInLoop = FALSE
    /\ recvAfterTxStop = 0

(***************************************************************************)
(* Positions                                                               *)
(***************************************************************************)
\* positions at which the next statement evaluates the property `state`
AccessPcs ==
    { "run_if_idle", "run_set_ready", "wait_test_ready", "wait_test_running",
      "run_if_not_running", "run_set_running", "loop_test", "loop_set_stopped",
      "final_test", "final_set", "get_state", "set_state" }

\* positions inside receiver_loop's / transmitter_loop's while statement
LoopPcs == { "loop_test", "kbhit", "getch", "loop_set_stopped", "recvfrom", "sendto" }

\* positions of a thread whose run() has ended, normally or by an exception
TerminatedPcs == { "finished", "raised" }

Goto(t, to) == pc' = [pc EXCEPT ![t] = to]

configVars == << approved, cfg, arg >>
keyVars == << keys, pressed >>
netVars == << cnt, sent, inflight, logged >>
histVars == << observed, escSeen, cancelInLoop, recvAfterCancel, forceStopSkipped, bindFailed >>
stopVars == << sentBeyond, timeouts, recvError, escInIteration, txStopInLoop, recvAfterTxStop >>

(***************************************************************************)
(* MultiThreadStateCommunicationClass.state                                *)
(***************************************************************************)
\* Condition.__enter__ acquires the underlying lock: it returns only when no
\* thread holds it
CanAcquireAlways(holders) == TRUE
CanAcquire(holders) == holders = {}

\* `with self._condition:` entered by thread t
Acquire(t) ==
    /\ pc[t] \in AccessPcs
    /\ CanAcquire(lock)
    /\ lock' = lock \cup { t }
    /\ UNCHANGED << state, pc, retry_cnt, raised, assigned, configVars, keyVars, netVars, histVars, stopVars >>

\* getter: thread t at position `from` reads the state under the lock and
\* branches on `test` of the value read
ReadStep(t, from, test, toTrue, toFalse) ==
    /\ pc[t] = from
    /\ t \in lock
    /\ Goto(t, IF test THEN toTrue ELSE toFalse)
    /\ lock' = lock \ { t }
    /\ UNCHANGED << state, raised, assigned >>

\* setter: thread t at position `from` assigns new_value under the lock; a
\* failed assertion leaves the value, releases the lock and ends the thread
WriteStep(t, from, new_value, to) ==
    /\ pc[t] = from
    /\ t \in lock
    /\ state' = State_setter(approved, state, new_value)
    /\ raised' = [raised EXCEPT ![t] = ~SetterAccepts(approved, new_value)]
    /\ assigned' = (assigned \/ SetterAccepts(approved, new_value))
    /\ Goto(t, IF SetterAccepts(approved, new_value) THEN to ELSE "raised")
    /\ lock' = lock \ { t }

(***************************************************************************)
(* The console: msvcrt.kbhit() and msvcrt.getch()                          *)
(***************************************************************************)
kbhit == Len(keys) > 0

\* a key is pressed on the console.  A key pressed while the listener is at
\* recvfrom may arrive during the call, so cancelInLoop records only an ESC
\* that precedes every later recvfrom() call.
KeyPress(k) ==
    /\ pressed < MaxKeys
    /\ keys' = Append(keys, k)
    /\ pressed' = pressed + 1
    /\ cancelInLoop' =
          (cancelInLoop \/ (k = ESC /\ pc[Listener] \in LoopPcs \ { "recvfrom" }))
    /\ UNCHANGED << state, lock, pc, retry_cnt, raised, assigned, configVars, netVars,
                    observed, escSeen, recvAfterCancel, forceStopSkipped, bindFailed, stopVars >>

\* thread t at `kbhit() and ...`: kbhit() alone
KbhitStep(t, toFalse) ==
    /\ pc[t] = "kbhit"
    /\ Goto(t, IF kbhit THEN "getch" ELSE toFalse)
    /\ UNCHANGED << state, lock, retry_cnt, raised, assigned, configVars, keyVars, netVars, histVars, stopVars >>

\* thread t at `getch().decode() == chr(27)`: getch() blocks until a key is
\* in the buffer and removes it
GetchStep(t, toFalse) ==
    /\ pc[t] = "getch"
    /\ Len(keys) > 0
    /\ keys' = Tail(keys)
    /\ escSeen' = (escSeen \/ Head(keys) = ESC)
    /\ Goto(t, IF Head(keys) = ESC THEN "loop_set_stopped" ELSE toFalse)
    /\ UNCHANGED << state, lock, retry_cnt, raised, assigned, configVars, pressed, netVars,
                    observed, cancelInLoop, recvAfterCancel, forceStopSkipped, bindFailed,
                    sentBeyond, timeouts, recvError, txStopInLoop, recvAfterTxStop >>


(***************************************************************************)
(* ListeningServerClass                                                    *)
(***************************************************************************)
\* run(): if self.state == "idle":
Listener_run_IfIdle ==
    /\ ReadStep(Listener, "run_if_idle", state = IDLE, "run_set_ready", "wait_test_ready")
    /\ UNCHANGED << retry_cnt, configVars, keyVars, netVars, histVars, stopVars >>

\* run(): self.state = "listener_server_ready"
Listener_run_SetReady ==
    /\ WriteStep(Listener, "run_set_ready", LISTENER_READY, "wait_test_ready")
    /\ UNCHANGED << retry_cnt, configVars, keyVars, netVars, histVars, stopVars >>

\* the test of run()'s while statement
ListenerNeverWaits(s) == FALSE
ListenerWaits(s) == s # TRANSMITTER_READY

\* run(): while self.state != "transmitter_client_ready":
Listener_run_WaitTestReady ==
    /\ ReadStep(Listener, "wait_test_ready", ListenerWaits(state),
                "wait_test_running", "run_if_not_running")
    /\ observed' = [observed EXCEPT ![Listener] = @ \/ state \in { TRANSMITTER_READY, RUNNING }]
    /\ UNCHANGED << retry_cnt, configVars, keyVars, netVars,
                    escSeen, cancelInLoop, recvAfterCancel, forceStopSkipped, bindFailed, stopVars >>

\* run(): if self.state == "running": break (else sleep and test again)
Listener_run_WaitTestRunning ==
    /\ ReadStep(Listener, "wait_test_running", state = RUNNING,
                "run_if_not_running", "wait_test_ready")
    /\ observed' = [observed EXCEPT ![Listener] = @ \/ state = RUNNING]
    /\ UNCHANGED << retry_cnt, configVars, keyVars, netVars,
                    escSeen, cancelInLoop, recvAfterCancel, forceStopSkipped, bindFailed, stopVars >>

\* run(): if self.state != "running":
Listener_run_IfNotRunning ==
    /\ ReadStep(Listener, "run_if_not_running", state # RUNNING,
                "run_set_running", "receiver_loop")
    /\ UNCHANGED << retry_cnt, configVars, keyVars, netVars, histVars, stopVars >>

\* run(): self.state = "running"
Listener_run_SetRunning ==
    /\ WriteStep(Listener, "run_set_running", RUNNING, "receiver_loop")
    /\ UNCHANGED << retry_cnt, configVars, keyVars, netVars, histVars, stopVars >>

\* run(): self.receiver_loop(); receiver_loop: retry_cnt = 2
Listener_receiver_loop_Enter ==
    /\ pc[Listener] = "receiver_loop"
    /\ retry_cnt' = RetryBudget
    /\ Goto(Listener, "loop_test")
    /\ UNCHANGED << state, lock, raised, assigned, configVars, keyVars, netVars, histVars, stopVars >>

\* receiver_loop: while self.state == "running" and retry_cnt > 0:
Listener_receiver_loop_Test ==
    /\ ReadStep(Listener, "loop_test", state = RUNNING /\ retry_cnt > 0,
                "kbhit", "final_test")
    /\ UNCHANGED << retry_cnt, configVars, keyVars, netVars, histVars, stopVars >>

\* receiver_loop: if kbhit() ...
Listener_receiver_loop_Kbhit == KbhitStep(Listener, "recvfrom")

\* receiver_loop: ... and getch().decode() == chr(27):
Listener_receiver_loop_Getch ==
    /\ GetchStep(Listener, "recvfrom")
    /\ escInIteration' = (Head(keys) = ESC)

\* receiver_loop: self.state = "listener_server_stopped" (ESC pressed); the
\* statement that follows is the try: recvfrom
Listener_receiver_loop_SetStopped ==
    /\ WriteStep(Listener, "loop_set_stopped", LISTENER_STOPPED, "recvfrom")
    /\ UNCHANGED << retry_cnt, configVars, keyVars, netVars, histVars, stopVars >>

\* one more recvfrom() call, counted once ESC was pressed during the loop
\* and once the transmitter wrote its stopped value during the loop; the call
\* is the last statement of its loop iteration
CountRecv ==
    /\ recvAfterCancel' = IF cancelInLoop THEN recvAfterCancel + 1 ELSE recvAfterCancel
    /\ recvAfterTxStop' = IF txStopInLoop THEN recvAfterTxStop + 1 ELSE recvAfterTxStop
    /\ escInIteration' = FALSE

\* where `except error: ... break` continues: after the while statement
AfterRecvErrorContinue == "loop_test"
AfterRecvError == "final_test"

\* receiver_loop: recvfrom() takes a queued datagram d: it is logged, or it
\* does not fit the buffer and socket.error ends the loop
Listener_receiver_loop_Recvfrom ==
    /\ pc[Listener] = "recvfrom"
    /\ \E d \in inflight :
          LET r == RecvFrom(d.payload, cfg.buffer_size)
          IN  /\ inflight' = inflight \ { d }
              /\ logged' = IF r.error THEN logged
                           ELSE Append(logged, [ val |-> d.val, payload |-> r.data ])
              /\ Goto(Listener, IF r.error THEN AfterRecvError ELSE "loop_test")
              /\ recvError' = (recvError \/ r.error)
    /\ CountRecv
    /\ UNCHANGED << state, lock, retry_cnt, raised, assigned, configVars, keyVars,
                    cnt, sent,
                    observed, escSeen, cancelInLoop, forceStopSkipped, bindFailed,
                    sentBeyond, timeouts, txStopInLoop >>

\* the retry counter after a timeout: retry_cnt -= 1
RetryAfterTimeoutKept(r) == r
RetryAfterTimeout(r) == r - 1

\* receiver_loop: except timeout: retry_cnt -= 1; continue
Listener_receiver_loop_Timeout ==
    /\ pc[Listener] = "recvfrom"
    /\ retry_cnt' = RetryAfterTimeout(retry_cnt)
    /\ timeouts' = timeouts + 1
    /\ Goto(Listener, "loop_test")
    /\ CountRecv
    /\ UNCHANGED << state, lock, raised, assigned, configVars, keyVars, netVars,
                    observed, escSeen, cancelInLoop, forceStopSkipped, bindFailed,
                    sentBeyond, recvError, txStopInLoop >>

\* receiver_loop: except error: break
Listener_receiver_loop_Error ==
    /\ pc[Listener] = "recvfrom"
    /\ Goto(Listener, AfterRecvError)
    /\ recvError' = TRUE
    /\ CountRecv
    /\ UNCHANGED << state, lock, retry_cnt, raised, assigned, configVars, keyVars, netVars,
                    observed, escSeen, cancelInLoop, forceStopSkipped, bindFailed,
                    sentBeyond, timeouts, txStopInLoop >>

\* the test of receiver_loop's final if statement
ForceStopNeededInverted(s) == s = LISTENER_STOPPED
ForceStopNeeded(s) == s # LISTENER_STOPPED

\* receiver_loop's final statement run without interruption on state s:
\* if self.state != "listener_server_stopped": self.state = "listener_server_stopped"
ForceStop(s) ==
    IF ForceStopNeeded(s) THEN State_setter(approved, s, LISTENER_STOPPED) ELSE s

\* receiver_loop: if self.state != "listener_server_stopped":
Listener_receiver_loop_FinalTest ==
    /\ ReadStep(Listener, "final_test", ForceStopNeeded(state), "final_set", "finished")
    /\ forceStopSkipped' = ~ForceStopNeeded(state)
    /\ UNCHANGED << retry_cnt, configVars, keyVars, netVars,
                    observed, escSeen, cancelInLoop, recvAfterCancel, bindFailed, stopVars >>

\* receiver_loop: self.state = "listener_server_stopped" (after the loop)
Listener_receiver_loop_FinalSet ==
    /\ WriteStep(Listener, "final_set", LISTENER_STOPPED, "finished")
    /\ UNCHANGED << retry_cnt, configVars, keyVars, netVars, histVars, stopVars >>

ListenerNext ==
    \/ Acquire(Listener)
    \/ Listener_run_IfIdle
    \/ Listener_run_SetReady
    \/ Listener_run_WaitTestReady
    \/ Listener_run_WaitTestRunning
    \/ Listener_run_IfNotRunning
    \/ Listener_run_SetRunning
    \/ Listener_receiver_loop_Enter
    \/ Listener_receiver_loop_Test
    \/ Listener_receiver_loop_Kbhit
    \/ Listener_receiver_loop_Getch
    \/ Listener_receiver_loop_SetStopped
    \/ Listener_receiver_loop_Recvfrom
    \/ Listener_receiver_loop_Timeout
    \/ Listener_receiver_loop_Error
    \/ Listener_receiver_loop_FinalTest
    \/ Listener_receiver_loop_FinalSet

(***************************************************************************)
(* TransmittingClientClass                                                 *)
(***************************************************************************)
\* run(): if self.state == "idle":
Transmitter_run_IfIdle ==
    /\ ReadStep(Transmitter, "run_if_idle", state = IDLE, "run_set_ready", "wait_test_ready")
    /\ UNCHANGED << retry_cnt, configVars, keyVars, netVars, histVars, stopVars >>

\* run(): self.state = "transmitter_client_ready"
Transmitter_run_SetReady ==
    /\ WriteStep(Transmitter, "run_set_ready", TRANSMITTER_READY, "wait_test_ready")
    /\ UNCHANGED << retry_cnt, configVars, keyVars, netVars, histVars, stopVars >>

\* the test of run()'s while statement
TransmitterWaits(s) == s # LISTENER_READY

\* run(): while self.state != "listener_server_ready":
Transmitter_run_WaitTestReady ==
    /\ ReadStep(Transmitter, "wait_test_ready", TransmitterWaits(state),
                "wait_test_running", "run_if_not_running")
    /\ observed' = [observed EXCEPT ![Transmitter] = @ \/ state \in { LISTENER_READY, RUNNING }]
    /\ UNCHANGED << retry_cnt, configVars, keyVars, netVars,
                    escSeen, cancelInLoop, recvAfterCancel, forceStopSkipped, bindFailed, stopVars >>

\* run(): if self.state == "running": break (else sleep and test again)
Transmitter_run_WaitTestRunning ==
    /\ ReadStep(Transmitter, "wait_test_running", state = RUNNING,
                "run_if_not_running", "wait_test_ready")
    /\ observed' = [observed EXCEPT ![Transmitter] = @ \/ state = RUNNING]
    /\ UNCHANGED << retry_cnt, configVars, keyVars, netVars,
                    escSeen, cancelInLoop, recvAfterCancel, forceStopSkipped, bindFailed, stopVars >>

\* run(): if self.state != "running":
Transmitter_run_IfNotRunning ==
    /\ ReadStep(Transmitter, "run_if_not_running", state # RUNNING,
                "run_set_running", "transmitter_loop")
    /\ UNCHANGED << retry_cnt, configVars, keyVars, netVars, histVars, stopVars >>

\* run(): self.state = "running"
Transmitter_run_SetRunning ==
    /\ WriteStep(Transmitter, "run_set_running", RUNNING, "transmitter_loop")
    /\ UNCHANGED << retry_cnt, configVars, keyVars, netVars, histVars, stopVars >>

\* run(): self.transmitter_loop(); transmitter_loop: cnt = 0
Transmitter_transmitter_loop_Enter ==
    /\ pc[Transmitter] = "transmitter_loop"
    /\ cnt' = 0
    /\ Goto(Transmitter, "loop_test")
    /\ UNCHANGED << state, lock, retry_cnt, raised, assigned, configVars, keyVars,
                    sent, inflight, logged, histVars, stopVars >>

\* transmitter_loop: while self.state != "listener_server_stopped":
Transmitter_transmitter_loop_Test ==
    /\ ReadStep(Transmitter, "loop_test", state # LISTENER_STOPPED, "kbhit", "finished")
    /\ UNCHANGED << retry_cnt, configVars, keyVars, netVars, histVars, stopVars >>

\* transmitter_loop: if kbhit() ...
Transmitter_transmitter_loop_Kbhit == KbhitStep(Transmitter, "sendto")

\* transmitter_loop: ... and getch().decode() == chr(27):
Transmitter_transmitter_loop_Getch ==
    /\ GetchStep(Transmitter, "sendto")
    /\ UNCHANGED escInIteration

\* transmitter_loop: self.state = "transmitter_client_stopped" (ESC pressed);
\* the statement that follows is the sendto
Transmitter_transmitter_loop_SetStopped ==
    /\ WriteStep(Transmitter, "loop_set_stopped", TRANSMITTER_STOPPED, "sendto")
    /\ txStopInLoop' = (txStopInLoop \/ pc[Listener] \in LoopPcs)
    /\ UNCHANGED << retry_cnt, configVars, keyVars, netVars, histVars, sentBeyond,
                    timeouts, recvError, escInIteration, recvAfterTxStop >>

\* the counter after one iteration: cnt += 1
NextCntSkipping(c) == c + 2
NextCnt(c) == c + 1

\* transmitter_loop: sendto(str.encode(str(cnt)), ...); sleep(0.5); cnt += 1.
\* The datagram is queued at the listener's socket; one that is lost on the
\* way is one that recvfrom() never takes from the queue.
Transmitter_transmitter_loop_Sendto ==
    /\ pc[Transmitter] = "sendto"
    /\ Len(sent) < MaxCnt
    /\ LET d == [ val |-> cnt, payload |-> Encode(cnt) ]
       IN  /\ sent' = Append(sent, d)
           /\ inflight' = inflight \cup { d }
    /\ cnt' = NextCnt(cnt)
    /\ Goto(Transmitter, "loop_test")
    /\ UNCHANGED << state, lock, retry_cnt, raised, assigned, configVars, keyVars,
                    logged, histVars, stopVars >>

\* the same statement once the counter has left the recorded window: the
\* iteration is taken, the datagram and the counter are no longer recorded
Transmitter_transmitter_loop_SendtoUntracked ==
    /\ pc[Transmitter] = "sendto"
    /\ Len(sent) >= MaxCnt
    /\ sentBeyond' = TRUE
    /\ Goto(Transmitter, "loop_test")
    /\ UNCHANGED << state, lock, retry_cnt, raised, assigned, configVars, keyVars, netVars,
                    histVars, timeouts, recvError, escInIteration, txStopInLoop,
                    recvAfterTxStop >>

TransmitterNext ==
    \/ Acquire(Transmitter)
    \/ Transmitter_run_IfIdle
    \/ Transmitter_run_SetReady
    \/ Transmitter_run_WaitTestReady
    \/ Transmitter_run_WaitTestRunning
    \/ Transmitter_run_IfNotRunning
    \/ Transmitter_run_SetRunning
    \/ Transmitter_transmitter_loop_Enter
    \/ Transmitter_transmitter_loop_Test
    \/ Transmitter_transmitter_loop_Kbhit
    \/ Transmitter_transmitter_loop_Getch
    \/ Transmitter_transmitter_loop_SetStopped
    \/ Transmitter_transmitter_loop_Sendto
    \/ Transmitter_transmitter_loop_SendtoUntracked


(***************************************************************************)
(* MainClass.run()                                                         *)
(***************************************************************************)
\* where run() continues when ListeningServerClass.__init__ raises on
\* bind(): run() has no try statement, the exception leaves run()
AfterBindFailureIgnored == "start_transmitter"
AfterBindFailure == "bind_failed"

MainStep(from, to) ==
    /\ pc[Main] = from
    /\ Goto(Main, to)
    /\ UNCHANGED << state, lock, retry_cnt, raised, assigned, configVars, keyVars, netVars, histVars, stopVars >>

\* transmitter = TransmittingClientClass(...): the socket is created, not bound
Main_run_ConstructTransmitter ==
    MainStep("construct_transmitter",
             IF Transmitter__init__Accepts(cfg) THEN "construct_listener"
                                                ELSE "assert_failed")

\* listener = ListeningServerClass(...): the assertions hold, bind() succeeds
Main_run_ConstructListener ==
    /\ Listener__init__Accepts(cfg)
    /\ MainStep("construct_listener", "start_transmitter")

\* listener = ListeningServerClass(...): an assertion on the arguments fails
Main_run_ConstructListenerAssertFails ==
    /\ ~Listener__init__Accepts(cfg)
    /\ MainStep("construct_listener", "assert_failed")

\* listener = ListeningServerClass(...): bind() raises (the port is in use)
Main_run_ConstructListenerBindFails ==
    /\ Listener__init__Accepts(cfg)
    /\ pc[Main] = "construct_listener"
    /\ Goto(Main, AfterBindFailure)
    /\ bindFailed' = TRUE
    /\ UNCHANGED << state, lock, retry_cnt, raised, assigned, configVars, keyVars, netVars,
                    observed, escSeen, cancelInLoop, recvAfterCancel, forceStopSkipped, stopVars >>

\* transmitter.start() / listener.start()
StartStep(from, t, to) ==
    /\ pc[Main] = from
    /\ pc[t] = "not_started"
    /\ pc' = [pc EXCEPT ![Main] = to, ![t] = "run_if_idle"]
    /\ UNCHANGED << state, lock, retry_cnt, raised, assigned, configVars, keyVars, netVars, histVars, stopVars >>

Main_run_StartTransmitter == StartStep("start_transmitter", Transmitter, "start_listener")

Main_run_StartListener == StartStep("start_listener", Listener, "join_transmitter")

\* Thread.join(5) on a thread at position p returns when the thread has ended
\* or when the 5 seconds have passed
JoinReturnsUntimed(p, timed_out) == p \in TerminatedPcs
JoinReturns(p, timed_out) == p \in TerminatedPcs \/ timed_out

\* transmitter.join(5)
Main_run_JoinTransmitter ==
    /\ \E timed_out \in BOOLEAN : JoinReturns(pc[Transmitter], timed_out)
    /\ MainStep("join_transmitter", "join_listener")

\* listener.join(5)
Main_run_JoinListener ==
    /\ \E timed_out \in BOOLEAN : JoinReturns(pc[Listener], timed_out)
    /\ MainStep("join_listener", "finished")

MainNext ==
    \/ Main_run_ConstructTransmitter
    \/ Main_run_ConstructListener
    \/ Main_run_ConstructListenerAssertFails
    \/ Main_run_ConstructListenerBindFails
    \/ Main_run_StartTransmitter
    \/ Main_run_StartListener
    \/ Main_run_JoinTransmitter
    \/ Main_run_JoinListener

ConsoleNext == \E k \in Keys : KeyPress(k)

Next ==
    \/ MainNext
    \/ TransmitterNext
    \/ ListenerNext
    \/ ConsoleNext

Spec == Init /\ [][Next]_vars


(***************************************************************************)
(* Scheduling: a thread that can take a step again and again eventually    *)
(* takes one (both endpoints sleep between their accesses to the lock, so  *)
(* a thread waiting for the lock gets it); no key need ever be pressed.    *)
(***************************************************************************)
FairSpec ==
    /\ Spec
    /\ WF_vars(MainNext)
    /\ SF_vars(TransmitterNext)
    /\ SF_vars(ListenerNext)

(***************************************************************************)
(* The State object on its own: a State constructed with any non-empty     *)
(* list of approved values, and two threads calling the getter and the     *)
(* setter of MultiThreadStateCommunicationClass with arbitrary values.     *)
(***************************************************************************)
\* longest list of approved values drawn, besides MainClass's own
MaxApprovedLen == 2

ApprovedCandidates ==
    { MainApprovedValues } \cup
    UNION { [1..n -> { IDLE, RUNNING }] : n \in 1..MaxApprovedLen }

ArgValues == { IDLE, RUNNING, LISTENER_STOPPED, "unknown_state", NoneValue }

InitState ==
    /\ approved \in ApprovedCandidates
    /\ state = State__init__(approved)
    /\ lock = {}
    /\ pc = [ t \in { Main, Transmitter, Listener } |->
                IF t = Main THEN "finished" ELSE "caller" ]
    /\ cfg \in { c \in ConfigCandidates :
                   MainClass__init__Accepts(c) /\ Listener__init__Accepts(c) }
    /\ keys = << >>
    /\ pressed = 0
    /\ cnt = 0
    /\ sent = << >>
    /\ inflight = {}
    /\ logged = << >>
    /\ retry_cnt = 0
    /\ observed = [ t \in Endpoints |-> FALSE ]
    /\ escSeen = FALSE
    /\ cancelInLoop = FALSE
    /\ recvAfterCancel = 0
    /\ forceStopSkipped = FALSE
    /\ bindFailed = FALSE
    /\ assigned = FALSE
    /\ arg = [ t \in Endpoints |-> NoneValue ]
    /\ raised = [ t \in Endpoints |-> FALSE ]
    /\ sentBeyond = FALSE
    /\ timeouts = 0
    /\ recvError = FALSE
    /\ escInIteration = FALSE
    /\ txStopInLoop = FALSE
    /\ recvAfterTxStop = 0

\* thread t evaluates `self.state = v`
State_CallSetter(t, v) ==
    /\ pc[t] = "caller"
    /\ arg' = [arg EXCEPT ![t] = v]
    /\ Goto(t, "set_state")
    /\ UNCHANGED << state, approved, cfg, lock, retry_cnt, raised, assigned,
                    keyVars, netVars, histVars, stopVars >>

\* MultiThreadStateCommunicationClass.state setter, under the lock
State_Setter(t) ==
    /\ WriteStep(t, "set_state", arg[t], "caller")
    /\ UNCHANGED << retry_cnt, configVars, keyVars, netVars, histVars, stopVars >>

\* thread t evaluates `self.state`
State_CallGetter(t) ==
    /\ pc[t] = "caller"
    /\ Goto(t, "get_state")
    /\ UNCHANGED << state, lock, retry_cnt, raised, assigned, configVars,
                    keyVars, netVars, histVars, stopVars >>

\* MultiThreadStateCommunicationClass.state getter, under the lock
State_Getter(t) ==
    /\ ReadStep(t, "get_state", TRUE, "caller", "caller")
    /\ UNCHANGED << retry_cnt, configVars, keyVars, netVars, histVars, stopVars >>

NextState ==
    \E t \in Endpoints :
        \/ Acquire(t)
        \/ \E v \in ArgValues : State_CallSetter(t, v)
        \/ State_Setter(t)
        \/ State_CallGetter(t)
        \/ State_Getter(t)

SpecState == InitState /\ [][NextState]_vars

(***************************************************************************)
(* The two main loops on their own, entered after the rendezvous with the  *)
(* transmitter's counter at a value drawn from WireStarts: `sent` records  *)
(* the datagrams sent from there on.                                       *)
(***************************************************************************)
WireStarts == { 0, 9, 99 }

InitWire ==
    /\ approved = MainApprovedValues
    /\ state = RUNNING
    /\ lock = {}
    /\ pc = [ t \in { Main, Transmitter, Listener } |->
                IF t = Main THEN "join_transmitter" ELSE "loop_test" ]
    /\ cfg \in { c \in ConfigCandidates :
                   MainClass__init__Accepts(c) /\ Listener__init__Accepts(c) }
    /\ keys = << >>
    /\ pressed = 0
    /\ cnt \in WireStarts
    /\ sent = << >>
    /\ inflight = {}
    /\ logged = << >>
    /\ retry_cnt = RetryBudget
    /\ observed = [ t \in Endpoints |-> TRUE ]
    /\ escSeen = FALSE
    /\ cancelInLoop = FALSE
    /\ recvAfterCancel = 0
    /\ forceStopSkipped = FALSE
    /\ bindFailed = FALSE
    /\ assigned = TRUE
    /\ arg = [ t \in Endpoints |-> NoneValue ]
    /\ raised = [ t \in Endpoints |-> FALSE ]
    /\ sentBeyond = FALSE
    /\ timeouts = 0
    /\ recvError = FALSE
    /\ escInIteration = FALSE
    /\ txStopInLoop = FALSE
    /\ recvAfterTxStop = 0

NextWire ==
    \/ Acquire(Transmitter)
    \/ Transmitter_transmitter_loop_Test
    \/ Transmitter_transmitter_loop_Kbhit
    \/ Transmitter_transmitter_loop_Sendto
    \/ Transmitter_transmitter_loop_SendtoUntracked
    \/ Acquire(Listener)
    \/ Listener_receiver_loop_Test
    \/ Listener_receiver_loop_Kbhit
    \/ Listener_receiver_loop_Recvfrom
    \/ Listener_receiver_loop_Timeout
    \/ Listener_receiver_loop_Error
    \/ Listener_receiver_loop_FinalTest
    \/ Listener_receiver_loop_FinalSet

SpecWire == InitWire /\ [][NextWire]_vars


(***************************************************************************)
(* Properties                                                              *)
(***************************************************************************)
InMainLoop(t) == pc[t] \in LoopPcs \cup { "receiver_loop", "transmitter_loop" }

\* C1: in every reachable state of the transmitter, the listener and the
\* coordinator, the shared State value is one of the approved values fixed
\* at construction.
C1_StateAlwaysApproved ==
    /\ approved = MainApprovedValues
    /\ state \in Range(MainApprovedValues)

\* both endpoints have run to their end, each having written the state
C1_Witness ==
    /\ pc[Transmitter] = "finished"
    /\ pc[Listener] = "finished"
    /\ state = LISTENER_STOPPED
    /\ Len(logged) > 0

\* C2: an endpoint is in its main loop (receiver_loop, transmitter_loop) only
\* after one of its own reads of the shared state returned the peer's ready
\* value or "running".
C2_LoopOnlyAfterRendezvous ==
    \A t \in Endpoints : (InMainLoop(t) \/ pc[t] = "finished") => observed[t]

\* both endpoints are in their main loops
C2_Witness ==
    /\ pc[Listener] = "recvfrom"
    /\ pc[Transmitter] = "sendto"
    /\ Len(sent) > 0

\* C3: once an endpoint has observed ESC, both endpoint threads eventually
\* finish their run() with the state at a stopped value.
C3_CancellationStopsBoth ==
    escSeen ~> ( /\ pc[Transmitter] = "finished"
                 /\ pc[Listener] = "finished"
                 /\ state \in { LISTENER_STOPPED, TRANSMITTER_STOPPED } )

\* C4: after ESC is pressed while the listener is in its receive loop, the
\* listener makes at most two further receive attempts.
C4_StopsWithinRetryBudget ==
    cancelInLoop => recvAfterCancel <= RetryBudget

\* C5: a setter call with a value outside the approved list raises, leaves
\* the current value unchanged and releases the lock, whichever thread makes
\* it and wherever the other thread is.
C5_SetterRejectsUnapproved ==
    [][ \A t \in Endpoints :
          ( /\ pc[t] = "set_state"
            /\ pc'[t] # "set_state"
            /\ arg[t] \notin Range(approved) )
          => ( /\ state' = state
               /\ raised'[t]
               /\ pc'[t] = "raised"
               /\ lock' = {} ) ]_vars

\* one caller's setter call has raised after the other caller changed the value
C5_Witness ==
    \E t \in Endpoints :
        /\ raised[t]
        /\ arg[t] \notin Range(approved)
        /\ assigned
        /\ state # approved[1]

\* C6: a State constructed with a non-empty list E holds E[0] until a setter
\* call assigns a value; MainClass's State holds "idle".
C6_StartsAtFirstApproved ==
    ~assigned => ( /\ state = approved[1]
                   /\ (approved = MainApprovedValues => state = IDLE) )

\* MainClass's State, read by one thread after the other's setter call raised
C6_Witness ==
    /\ ~assigned
    /\ approved = MainApprovedValues
    /\ state = IDLE
    /\ raised[Transmitter]
    /\ pc[Listener] = "get_state"
    /\ lock = { Listener }

\* C7: the listener's final statement is idempotent: it ends with the state
\* at listener_server_stopped and without an error, it leaves a state that
\* is already listener_server_stopped alone, and run twice in a row it
\* gives what it gives run once.
C7_ForceStopIdempotent ==
    [][ /\ ( /\ pc[Listener] \in { "final_test", "final_set" }
             /\ pc'[Listener] # pc[Listener] )
           => ( /\ pc'[Listener] = "finished" => state' = LISTENER_STOPPED
                /\ ~raised'[Listener]
                /\ state = LISTENER_STOPPED => state' = state )
        /\ ForceStop(state) = LISTENER_STOPPED
        /\ ForceStop(ForceStop(state)) = ForceStop(state) ]_vars

\* the listener has finished after its final test found the state already at
\* listener_server_stopped
C7_Witness ==
    /\ forceStopSkipped
    /\ pc[Listener] = "finished"
    /\ state = LISTENER_STOPPED

\* C8: every payload the listener logs decodes to the counter value the
\* transmitter put in that datagram, a value it sent.
C8_PayloadRoundTrip ==
    \A i \in DOMAIN logged :
        /\ Decode(logged[i].payload) = logged[i].val
        /\ \E k \in DOMAIN sent : sent[k].val = logged[i].val

\* a payload of several digits was logged, and a datagram longer than the
\* buffer was taken from the queue
C8_Witness ==
    /\ \E i \in DOMAIN logged : Len(logged[i].payload) > 1
    /\ \E k \in DOMAIN sent :
          /\ Len(sent[k].payload) > cfg.buffer_size
          /\ sent[k] \notin inflight

\* C9: the k-th datagram sent carries the counter value k-1, also in an
\* iteration in which ESC is observed.
C9_CounterSequence ==
    \A k \in DOMAIN sent :
        /\ sent[k].val = k - 1
        /\ Decode(sent[k].payload) = k - 1

\* the transmitter observed ESC in a recorded iteration and sent again
C9_Witness ==
    /\ state = TRANSMITTER_STOPPED
    /\ pc[Transmitter] = "sendto"
    /\ Len(sent) >= 1
    /\ Len(sent) < MaxCnt

\* C10: when bind() fails in the listener's constructor, neither endpoint
\* thread is ever started, no datagram is sent and the state keeps its
\* initial value.
C10_BindFailureAborts ==
    bindFailed => ( /\ pc[Transmitter] = "not_started"
                    /\ pc[Listener] = "not_started"
                    /\ pc[Main] = "bind_failed"
                    /\ sent = << >>
                    /\ state = IDLE
                    /\ ~assigned )

\* bind() has failed and time has passed (keys were pressed since)
C10_Witness ==
    /\ bindFailed
    /\ pressed = MaxKeys

\* positions of run()'s readiness-wait loop and of the statements before it
WaitPcs ==
    { "run_if_idle", "run_set_ready", "wait_test_ready", "wait_test_running" }

\* C11: once both endpoint threads are started, each of them eventually
\* leaves the readiness-wait loop of its run() and enters its main loop.
C11_HandshakeCompletes ==
    \A t \in Endpoints :
        (pc[Transmitter] # "not_started" /\ pc[Listener] # "not_started")
            ~> ~(pc[t] \in WaitPcs)

\* C12: once the shared state is listener_server_stopped, no step of either
\* endpoint changes it to another value.
C12_ListenerStoppedIsTerminal ==
    [][ state = LISTENER_STOPPED => state' = LISTENER_STOPPED ]_vars

\* C13: once the listener thread has terminated, the transmitter thread
\* eventually terminates too.
C13_TransmitterFollowsListener ==
    (pc[Listener] \in TerminatedPcs) ~> (pc[Transmitter] \in TerminatedPcs)

\* a lower bound of the number of sendto() calls made so far: the recorded
\* ones and, if any was made after them, one more
SendtoCalls == Len(sent) + (IF sentBeyond THEN 1 ELSE 0)

\* C14: the transmitter never makes more sendto() calls than its configured
\* maximum_num_of_iterations.
C14_IterationCap ==
    SendtoCalls <= cfg.maximum_num_of_iterations

\* positions of the listener from the first loop test of receiver_loop on
ReceiverLoopPcs ==
    { "loop_test", "kbhit", "getch", "loop_set_stopped", "recvfrom",
      "final_test", "final_set", "finished" }

\* C15: the retry counter of receiver_loop is 2 minus the number of timeouts
\* so far, whatever was received in between; the listener is inside a loop
\* iteration, and so at a receive attempt, only with fewer than two timeouts.
C15_RetryBudget ==
    /\ timeouts <= RetryBudget
    /\ pc[Listener] \in ReceiverLoopPcs => retry_cnt = RetryBudget - timeouts
    /\ pc[Listener] \in { "kbhit", "getch", "loop_set_stopped", "recvfrom" }
          => timeouts < RetryBudget

\* the loop has ended on its second timeout, with every recorded datagram
\* received before
C15_Witness ==
    /\ timeouts = RetryBudget
    /\ Len(logged) = MaxCnt
    /\ pc[Listener] = "finished"
    /\ ~recvError
    /\ ~escSeen

\* positions of the listener after receiver_loop's while statement
AfterLoopPcs == { "final_test", "final_set", "finished" }

\* C16: once a recvfrom() call has raised socket.error, the listener is past
\* its loop for good (no further receive attempt); each of its steps moves it
\* towards the end of run() and none is blocked by anything but the lock held
\* by the transmitter, which can release it (the thread terminates); and the
\* shared state is listener_server_stopped at the step that ends its run().
C16_ErrorStopsListener ==
    /\ [](recvError => pc[Listener] \in AfterLoopPcs)
    /\ []((recvError /\ pc[Listener] # "finished")
            => IF Transmitter \in lock THEN ENABLED TransmitterNext
                                     ELSE ENABLED ListenerNext)
    /\ [][ (recvError /\ pc'[Listener] # pc[Listener])
              => /\ << pc[Listener], pc'[Listener] >> \in
                      { << "final_test", "final_set" >>, << "final_test", "finished" >>,
                        << "final_set", "finished" >> }
                 /\ pc'[Listener] = "finished" => state' = LISTENER_STOPPED ]_vars

\* the listener has terminated after a socket error in an iteration that
\* followed a successful receive
C16_Witness ==
    /\ recvError
    /\ pc[Listener] = "finished"
    /\ Len(logged) >= 1
    /\ timeouts = 0

\* C17: the step of an endpoint that writes its ready value is taken when the
\* shared state is idle.
C17_ReadyOnlyFromIdle ==
    [][ \A t \in Endpoints :
          (pc[t] = "run_set_ready" /\ pc'[t] # "run_set_ready") => state = IDLE ]_vars

\* C18: the listener makes no receive attempt in a loop iteration in which
\* its getch() returned ESC: no recvfrom() call is a step of such an
\* iteration.
C18_NoReceiveAfterEsc ==
    [][ (pc[Listener] = "recvfrom" /\ pc'[Listener] # "recvfrom")
           => ~escInIteration ]_vars

\* C19: once the transmitter has written transmitter_client_stopped while the
\* listener was in receiver_loop, the listener completes at most one more
\* recvfrom() call, and it eventually ends its run(), with the shared state
\* listener_server_stopped at the step that ends it.
C19_TransmitterStopsListener ==
    /\ [](txStopInLoop => recvAfterTxStop <= 1)
    /\ [][ (txStopInLoop /\ pc[Listener] # "finished" /\ pc'[Listener] = "finished")
              => state' = LISTENER_STOPPED ]_vars
    /\ (txStopInLoop ~> pc[Listener] = "finished")

(***************************************************************************)
(* The program's run and the callers of the State-class scenario side by   *)
(* side: the endpoints' accesses as run() makes them, and setter calls     *)
(* with unapproved values, which run() never makes.                        *)
(***************************************************************************)
SpecLock == (Init \/ InitState) /\ [][Next \/ NextState]_vars

\* C20: at most one thread is inside a `with self._condition:` block, and a
\* thread is inside one only at an access of the shared state; every step in
\* which an endpoint reads or writes the shared state is taken by a holder
\* of the lock and releases it, the setter call that raises included.
C20_AccessUnderLock ==
    /\ [](Cardinality(lock) <= 1)
    /\ [](\A t \in lock : pc[t] \in AccessPcs)
    /\ [][ \A t \in Endpoints :
             /\ (pc[t] \in AccessPcs /\ pc'[t] # pc[t])
                   => (t \in lock /\ t \notin lock')
             /\ (pc[t] # "raised" /\ pc'[t] = "raised")
                   => (t \in lock /\ t \notin lock' /\ state' = state) ]_vars
    /\ [][ state' # state => \E t \in lock : pc'[t] # pc[t] /\ t \notin lock' ]_vars

\* the transmitter's setter call has raised and the listener has since
\* acquired the lock for a setter call of its own
C20_Witness ==
    /\ raised[Transmitter]
    /\ pc[Transmitter] = "raised"
    /\ pc[Listener] = "set_state"
    /\ lock = { Listener }
    /\ assigned

\* positions of MainClass.run() from the first start() call on, in order
MainRunPcs ==
    << "start_transmitter", "start_listener", "join_transmitter", "join_listener",
       "finished" >>

\* C21: once both endpoints are constructed, run() starts the transmitter,
\* then the listener, joins each and returns: each of its steps moves it one
\* statement on and none is ever blocked, wherever the endpoints are.  A
\* join changes nothing of an endpoint, and an endpoint that has not ended
\* when run() has returned is stopped by nothing but its own getch().
C21_RunReturnsAfterBoundedJoins ==
    /\ [](pc[Main] \in Range(MainRunPcs) \ { "finished" } => ENABLED MainNext)
    /\ [](pc[Main] \in { "join_transmitter", "join_listener", "finished" }
             => \A t \in Endpoints : pc[t] # "not_started")
    /\ [](pc[Listener] # "not_started" => pc[Transmitter] # "not_started")
    /\ [][ (pc[Main] \in Range(MainRunPcs) /\ pc'[Main] # pc[Main])
              => \E i \in 1..(Len(MainRunPcs) - 1) :
                    pc[Main] = MainRunPcs[i] /\ pc'[Main] = MainRunPcs[i + 1] ]_vars
    /\ [][ (pc[Main] \in { "join_transmitter", "join_listener" } /\ pc'[Main] # pc[Main])
              => /\ \A t \in Endpoints : pc'[t] = pc[t]
                 /\ UNCHANGED << state, lock, keys, cnt, sent, inflight, retry_cnt >> ]_vars
    /\ []((pc[Main] = "finished" /\ lock = {})
             => /\ ~(pc[Transmitter] \in TerminatedPcs \cup { "getch" })
                    => ENABLED TransmitterNext
                /\ ~(pc[Listener] \in TerminatedPcs \cup { "getch" })
                    => ENABLED ListenerNext)

\* run() has returned from both joins while the transmitter is still
\* sending and the listener is still polling in its wait loop
C21_Witness ==
    /\ pc[Main] = "finished"
    /\ pc[Transmitter] = "sendto"
    /\ sentBeyond
    /\ pc[Listener] = "wait_test_ready"

\* the bounds of the configuration: maximum_num_of_iterations > 1,
\* port > 1000, buffer_size > 1
ConfigInBounds(c) ==
    /\ c.maximum_num_of_iterations > 1
    /\ c.port > 1000
    /\ c.buffer_size > 1

\* C22: a configuration that MainClass.__init__ accepted passes the
\* assertions of both endpoint constructors: once run() has made a
\* constructor call the configuration is within the bounds that call
\* asserts, and no constructor call of run() fails on an assertion.
C22_ConfigBoundsUniform ==
    MainClass__init__Accepts(cfg)
        => ( /\ pc[Main] # "construct_transmitter" => Transmitter__init__Accepts(cfg)
             /\ pc[Main] \notin { "construct_transmitter", "construct_listener" }
                   => ConfigInBounds(cfg)
             /\ pc[Main] # "assert_failed" )

====
